---- MODULE Spec2Model ----
(***************************************************************************)
(* Model of src/ppp_model.py: calculate_ppp, calculate_ife and main.       *)
(*                                                                         *)
(* The functions compute on Python floats.  A float is modelled as a       *)
(* binary floating-point number with round-to-nearest-even, gradual        *)
(* underflow, overflow to infinity and NaN, exactly as IEEE 754 binary64   *)
(* but with Precision significand bits and exponents Emin..Emax, so that   *)
(* every intermediate integer fits 32-bit integer arithmetic.  Emax stays   *)
(* well above Precision, as in binary64, so that the largest floats are    *)
(* spaced more than 100 apart and adding 1 to them does not overflow.       *)
(* Python raises ZeroDivisionError on a float division whose divisor is    *)
(* zero; every other float operation returns a value (possibly inf/nan).   *)
(* -0.0 compares equal to 0.0 in Python and is identified with it here.    *)
(***************************************************************************)
EXTENDS Integers, Sequences, FiniteSets, TLC

VARIABLES call, frames, drv

vars == <<call, frames, drv>>

----------------------------------------------------------------------------
(* The float format.                                                       *)

Precision == 20
Emax == 30
Emin == 1 - Emax

RECURSIVE Pow2(_)
Pow2(n) == IF n <= 0 THEN 1 ELSE 2 * Pow2(n - 1)

RECURSIVE Pow5(_)
Pow5(n) == IF n <= 0 THEN 1 ELSE 5 * Pow5(n - 1)

Abs(n) == IF n < 0 THEN -n ELSE n

Max2(a, b) == IF a >= b THEN a ELSE b

RECURSIVE BitLen(_)
BitLen(n) == IF n <= 0 THEN 0 ELSE 1 + BitLen(n \div 2)

(* A finite float is m * 2^e with m an odd integer, or zero.  *)
Zero == [k |-> "fin", m |-> 0, e |-> 0]
PosInf == [k |-> "inf", m |-> 1, e |-> 0]
NegInf == [k |-> "inf", m |-> -1, e |-> 0]
NaN == [k |-> "nan", m |-> 0, e |-> 0]

RECURSIVE Canon(_, _)
Canon(m, e) ==
  IF m = 0 THEN Zero
  ELSE IF m % 2 = 0 THEN Canon(m \div 2, e + 1)
  ELSE [k |-> "fin", m |-> m, e |-> e]

IsFinite(x) == x.k = "fin"
IsNaN(x) == x.k = "nan"
IsInf(x) == x.k = "inf"
IsZero(x) == x.k = "fin" /\ x.m = 0
Sign(x) == IF x.m < 0 THEN -1 ELSE IF x.m > 0 THEN 1 ELSE 0
Top(x) == x.e + BitLen(Abs(x.m)) - 1
Inf(s) == IF s < 0 THEN NegInf ELSE PosInf

(* Round (n + d) * 2^e, with n a natural and 0 < d < 1 iff sticky, to the   *)
(* nearest float, ties to even; s is the sign.                              *)
RoundNearestEven(s, n, e, sticky) ==
  IF n = 0 /\ ~sticky THEN Zero
  ELSE
    LET q == Max2(e + BitLen(n) - Precision, Emin - Precision + 1)
        shift == q - e
    IN IF shift <= 0
       THEN IF e + BitLen(n) - 1 > Emax THEN Inf(s) ELSE Canon(s * n, e)
       ELSE IF shift > BitLen(n) THEN Zero
       ELSE
         LET unit == Pow2(shift)
             half == unit \div 2
             kept == n \div unit
             rem == n % unit
             up == \/ rem > half
                   \/ rem = half /\ sticky
                   \/ rem = half /\ ~sticky /\ kept % 2 = 1
             r == IF up THEN kept + 1 ELSE kept
         IN IF r # 0 /\ q + BitLen(r) - 1 > Emax THEN Inf(s) ELSE Canon(s * r, q)

(* Long division: the quotient n / d * 2^e to Precision + 2 bits and a      *)
(* sticky flag, then rounded.                                               *)
RECURSIVE DivLoop(_, _, _, _, _)
DivLoop(s, q, r, d, e) ==
  IF q >= Pow2(Precision + 1) THEN RoundNearestEven(s, q, e, r # 0)
  ELSE IF 2 * r >= d THEN DivLoop(s, 2 * q + 1, 2 * r - d, d, e - 1)
  ELSE DivLoop(s, 2 * q, 2 * r, d, e - 1)

RoundRatio(s, n, d, e) ==
  IF n = 0 THEN Zero
  ELSE IF e + BitLen(n) - BitLen(d) < Emin - Precision - 2 THEN
    RoundNearestEven(s, 0, Emin - Precision - 2, TRUE)
  ELSE IF e + BitLen(n) - BitLen(d) > Emax + 2 THEN Inf(s)
  ELSE DivLoop(s, n \div d, n % d, d, e)

(* Float arithmetic: + - * / of Python floats.                              *)
FNeg(x) == [x EXCEPT !.m = -x.m]

(* Sum of two finite non-zero floats: the operand of larger magnitude is    *)
(* held to Precision + 3 bits, the other aligned to it with a sticky flag.  *)
AddFinite(x, y) ==
  LET big == IF Top(x) >= Top(y) THEN x ELSE y
      small == IF Top(x) >= Top(y) THEN y ELSE x
      g == Top(big) - Precision - 2
      M == Abs(big.m) * Pow2(big.e - g)
      exact == small.e >= g
      N == IF exact THEN Abs(small.m) * Pow2(small.e - g)
           ELSE IF g - small.e > Precision THEN 0
           ELSE Abs(small.m) \div Pow2(g - small.e)
      same == Sign(big) = Sign(small)
      n == IF same THEN M + N
           ELSE IF exact THEN M - N
           ELSE M - N - 1
  IN IF n >= 0 THEN RoundNearestEven(Sign(big), n, g, ~exact)
     ELSE RoundNearestEven(Sign(small), -n, g, ~exact)

FAdd(x, y) ==
  IF IsNaN(x) \/ IsNaN(y) THEN NaN
  ELSE IF IsInf(x) /\ IsInf(y) THEN (IF x.m = y.m THEN x ELSE NaN)
  ELSE IF IsInf(x) THEN x
  ELSE IF IsInf(y) THEN y
  ELSE IF IsZero(x) THEN y
  ELSE IF IsZero(y) THEN x
  ELSE AddFinite(x, y)

FSub(x, y) == FAdd(x, FNeg(y))

(* The product of two significands, cut to at most 30 bits with a sticky    *)
(* flag for the bits cut off.                                               *)
WideMul(a, b) ==
  LET k == Max2(0, BitLen(a) + BitLen(b) - 30)
      u == Pow2(k)
      a1 == a \div u
      a0 == a % u
      b1 == b \div u
      b0 == b % u
      low == a0 * b0
  IN [n |-> a1 * b + a0 * b1 + (low \div u), k |-> k, sticky |-> low % u # 0]

FMul(x, y) ==
  IF IsNaN(x) \/ IsNaN(y) THEN NaN
  ELSE IF IsInf(x) \/ IsInf(y)
    THEN (IF IsZero(x) \/ IsZero(y) THEN NaN ELSE Inf(Sign(x) * Sign(y)))
  ELSE IF IsZero(x) \/ IsZero(y) THEN Zero
  ELSE IF Top(x) + Top(y) > Emax + 1 THEN Inf(Sign(x) * Sign(y))
  ELSE IF Top(x) + Top(y) < Emin - Precision - 2 THEN Zero
  ELSE LET w == WideMul(Abs(x.m), Abs(y.m))
       IN RoundNearestEven(Sign(x) * Sign(y), w.n, x.e + y.e + w.k, w.sticky)

(* x / y for y # 0; Python raises ZeroDivisionError when y = 0 (DivFaults). *)
DivFaults(y) == IsZero(y)

FDiv(x, y) ==
  IF IsNaN(x) \/ IsNaN(y) THEN NaN
  ELSE IF IsInf(x) THEN (IF IsInf(y) THEN NaN ELSE Inf(Sign(x) * Sign(y)))
  ELSE IF IsInf(y) THEN Zero
  ELSE RoundRatio(Sign(x) * Sign(y), Abs(x.m), Abs(y.m), x.e - y.e)

(* Comparisons; every comparison with NaN is false.                         *)
FiniteLt(x, y) ==
  IF Sign(x) # Sign(y) THEN Sign(x) < Sign(y)
  ELSE IF Sign(x) = 0 THEN FALSE
  ELSE IF Top(x) # Top(y) THEN (IF Sign(x) > 0 THEN Top(x) < Top(y) ELSE Top(x) > Top(y))
  ELSE LET lo == IF x.e <= y.e THEN x.e ELSE y.e
       IN x.m * Pow2(x.e - lo) < y.m * Pow2(y.e - lo)

FLt(x, y) ==
  IF IsNaN(x) \/ IsNaN(y) THEN FALSE
  ELSE IF IsInf(x) THEN x.m < 0 /\ x # y
  ELSE IF IsInf(y) THEN y.m > 0
  ELSE FiniteLt(x, y)

FEq(x, y) == ~IsNaN(x) /\ ~IsNaN(y) /\ x = y
FGt(x, y) == FLt(y, x)
FLe(x, y) == FLt(x, y) \/ FEq(x, y)

(* A decimal literal n/d of the source text, and an int converted to float. *)
Literal(n, d) == RoundRatio(1, n, d, 0)
FromInt(i) == IF i < 0 THEN FNeg(RoundRatio(1, -i, 1, 0)) ELSE RoundRatio(1, i, 1, 0)

----------------------------------------------------------------------------
(* The two calculations.                                                   *)

One == FromInt(1)
Hundred == Literal(100, 1)

(* How a call ends: with the returned dict, or with the exception raised by *)
(* a float division by zero.                                                *)
NoValue == [none |-> TRUE]
Return(v) == [status |-> "returned", value |-> v]
ZeroDivisionError == [status |-> "ZeroDivisionError", value |-> NoValue]

PppFields == {"ppp_implied_rate", "misalignment_percent"}
IfeFields == {"predicted_change_exact", "predicted_change_approx", "interest_differential"}

(* calculate_ppp with the subtraction of line 30 left out.                  *)
calculate_ppp_no_subtract(domestic_price, foreign_price, current_exchange_rate) ==
  IF DivFaults(foreign_price) THEN ZeroDivisionError
  ELSE LET ppp_implied_rate == FDiv(domestic_price, foreign_price)
       IN IF DivFaults(ppp_implied_rate) THEN ZeroDivisionError
          ELSE Return([ppp_implied_rate |-> ppp_implied_rate,
                       misalignment_percent |->
                         FMul(FDiv(current_exchange_rate, ppp_implied_rate), Hundred)])

(* calculate_ppp with a guard that reports parity instead of dividing by a  *)
(* zero implied rate.                                                       *)
calculate_ppp_guarded(domestic_price, foreign_price, current_exchange_rate) ==
  IF DivFaults(foreign_price) THEN ZeroDivisionError
  ELSE LET ppp_implied_rate == FDiv(domestic_price, foreign_price)
       IN IF DivFaults(ppp_implied_rate)
          THEN Return([ppp_implied_rate |-> ppp_implied_rate, misalignment_percent |-> Zero])
          ELSE Return([ppp_implied_rate |-> ppp_implied_rate,
                       misalignment_percent |->
                         FMul(FDiv(FSub(current_exchange_rate, ppp_implied_rate),
                                   ppp_implied_rate), Hundred)])

calculate_ppp(domestic_price, foreign_price, current_exchange_rate) ==
  IF DivFaults(foreign_price) THEN ZeroDivisionError
  ELSE LET ppp_implied_rate == FDiv(domestic_price, foreign_price)
       IN IF DivFaults(ppp_implied_rate) THEN ZeroDivisionError
          ELSE LET misalignment_pct ==
                     FMul(FDiv(FSub(current_exchange_rate, ppp_implied_rate),
                               ppp_implied_rate), Hundred)
               IN Return([ppp_implied_rate |-> ppp_implied_rate,
                          misalignment_percent |-> misalignment_pct])

(* calculate_ife with the "- 1" of line 54 left out.                        *)
calculate_ife_no_minus_one(domestic_interest, foreign_interest) ==
  IF DivFaults(FAdd(One, foreign_interest)) THEN ZeroDivisionError
  ELSE Return([predicted_change_exact |->
                 FMul(FDiv(FAdd(One, domestic_interest), FAdd(One, foreign_interest)), Hundred),
               predicted_change_approx |->
                 FMul(FSub(domestic_interest, foreign_interest), Hundred),
               interest_differential |->
                 FMul(FSub(domestic_interest, foreign_interest), Hundred)])

(* calculate_ife with the operands of the differential of line 56 swapped.  *)
calculate_ife_swapped(domestic_interest, foreign_interest) ==
  IF DivFaults(FAdd(One, foreign_interest)) THEN ZeroDivisionError
  ELSE Return([predicted_change_exact |->
                 FMul(FSub(FDiv(FAdd(One, domestic_interest), FAdd(One, foreign_interest)),
                           One), Hundred),
               predicted_change_approx |->
                 FMul(FSub(foreign_interest, domestic_interest), Hundred),
               interest_differential |->
                 FMul(FSub(domestic_interest, foreign_interest), Hundred)])

calculate_ife(domestic_interest, foreign_interest) ==
  IF DivFaults(FAdd(One, foreign_interest)) THEN ZeroDivisionError
  ELSE LET predicted_change ==
             FMul(FSub(FDiv(FAdd(One, domestic_interest), FAdd(One, foreign_interest)),
                       One), Hundred)
           approx_change == FMul(FSub(domestic_interest, foreign_interest), Hundred)
       IN Return([predicted_change_exact |-> predicted_change,
                  predicted_change_approx |-> approx_change,
                  interest_differential |->
                    FMul(FSub(domestic_interest, foreign_interest), Hundred)])

----------------------------------------------------------------------------
(* Inputs: finite floats, among them the literals of main, the values at    *)
(* which a division faults, and the extremes of the format.                 *)

MaxFloat == Canon(Pow2(Precision) - 1, Emax - Precision + 1)
MinSubnormal == Canon(1, Emin - Precision + 1)
BelowMinusOne == Canon(-(Pow2(Precision - 1) + 1), 1 - Precision)
AboveMinusOne == Canon(-(Pow2(Precision) - 1), -Precision)

Tiny == Canon(1, -Precision - 3)

PriceValues ==
  {Zero, One, FromInt(2), FromInt(3), FromInt(-1), FromInt(-3), Literal(1205, 10),
   Literal(1152, 10), Literal(1, 10), MinSubnormal, Tiny, MaxFloat}

RateValues ==
  {Zero, One, Literal(108, 100), Literal(95, 100), FromInt(-1), MaxFloat, MinSubnormal}

InterestValues ==
  {Zero, Literal(45, 1000), Literal(25, 1000), Literal(1, 10), One, FromInt(3),
   FNeg(Literal(5, 10)), FromInt(-1), FromInt(-2), FromInt(-3), BelowMinusOne, AboveMinusOne,
   MinSubnormal, FMul(FromInt(2), MinSubnormal), Tiny, FMul(FromInt(2), Tiny),
   MaxFloat, FNeg(MaxFloat)}

(* calculate_ppp(d, f, d/f) is a call a caller can make whenever f # 0.     *)
ParityRate(d, f) == IF DivFaults(f) THEN {} ELSE {FDiv(d, f)}

NoFloat == [k |-> "unbound", m |-> 0, e |-> 0]

PppCalls ==
  UNION {{[fn |-> "calculate_ppp", a |-> d, b |-> f, c |-> r, status |-> "pending",
           out |-> NoValue] : r \in RateValues \cup ParityRate(d, f)} :
         <<d, f>> \in PriceValues \X PriceValues}

IfeCalls ==
  {[fn |-> "calculate_ife", a |-> d, b |-> f, c |-> NoFloat, status |-> "pending",
    out |-> NoValue] : <<d, f>> \in InterestValues \X InterestValues}

NoCall == [fn |-> "none", a |-> NoFloat, b |-> NoFloat, c |-> NoFloat, status |-> "none",
           out |-> NoValue]
NoFrames == <<>>
NoDriver == [pc |-> "none"]

(* One call by one caller: the arguments are drawn at the start, the call   *)
(* is applied as a whole.                                                   *)
InitCalc == call \in PppCalls \cup IfeCalls /\ frames = NoFrames /\ drv = NoDriver

ApplyPpp ==
  /\ call.fn = "calculate_ppp" /\ call.status = "pending"
  /\ call' = [call EXCEPT !.status = "done", !.out = calculate_ppp(call.a, call.b, call.c)]
  /\ UNCHANGED <<frames, drv>>

ApplyIfe ==
  /\ call.fn = "calculate_ife" /\ call.status = "pending"
  /\ call' = [call EXCEPT !.status = "done", !.out = calculate_ife(call.a, call.b)]
  /\ UNCHANGED <<frames, drv>>

NextCalc == ApplyPpp \/ ApplyIfe

SpecCalc == InitCalc /\ [][NextCalc]_vars

----------------------------------------------------------------------------
(* Properties of a single call (SpecCalc).                                 *)

Done(fn) == call.fn = fn /\ call.status = "done"
Returned == call.out.status = "returned"
Raised == call.out.status = "ZeroDivisionError"
MinusOne == FromInt(-1)

(* C1 (as amended): whenever foreign_price # 0 and the computed quotient    *)
(* domestic_price / foreign_price is not zero, calculate_ppp returns a      *)
(* record with exactly the fields ppp_implied_rate and misalignment_percent,*)
(* ppp_implied_rate = domestic_price / foreign_price and                    *)
(* misalignment_percent = (current - ppp_implied_rate) / ppp_implied_rate * 100. *)
C1_PppRecord ==
  (Done("calculate_ppp") /\ ~IsZero(call.b) /\ ~IsZero(FDiv(call.a, call.b))) =>
    /\ Returned
    /\ DOMAIN call.out.value = PppFields
    /\ call.out.value.ppp_implied_rate = FDiv(call.a, call.b)
    /\ call.out.value.misalignment_percent =
         FMul(FDiv(FSub(call.c, FDiv(call.a, call.b)), FDiv(call.a, call.b)), Hundred)

(* C1 as stated: the same record for every foreign_price # 0 and            *)
(* domestic_price # 0.                                                      *)
C1_AsStated ==
  (Done("calculate_ppp") /\ ~IsZero(call.b) /\ ~IsZero(call.a)) =>
    /\ Returned
    /\ DOMAIN call.out.value = PppFields
    /\ call.out.value.ppp_implied_rate = FDiv(call.a, call.b)
    /\ call.out.value.misalignment_percent =
         FMul(FDiv(FSub(call.c, FDiv(call.a, call.b)), FDiv(call.a, call.b)), Hundred)

C1_Witness ==
  /\ Done("calculate_ppp") /\ Returned
  /\ call.a = Literal(1205, 10) /\ call.b = Literal(1152, 10) /\ call.c = Literal(108, 100)
  /\ FGt(call.out.value.misalignment_percent, Zero)

(* C2: for every foreign_interest # -1 calculate_ife returns a record with  *)
(* predicted_change_exact = ((1 + d) / (1 + f) - 1) * 100,                  *)
(* predicted_change_approx = (d - f) * 100, and interest_differential equal *)
(* to predicted_change_approx.                                              *)
C2_IfeRecord ==
  (Done("calculate_ife") /\ call.b # MinusOne) =>
    /\ Returned
    /\ call.out.value.predicted_change_exact =
         FMul(FSub(FDiv(FAdd(One, call.a), FAdd(One, call.b)), One), Hundred)
    /\ call.out.value.predicted_change_approx = FMul(FSub(call.a, call.b), Hundred)
    /\ FEq(call.out.value.interest_differential, call.out.value.predicted_change_approx)

C2_Witness ==
  /\ Done("calculate_ife") /\ Returned
  /\ call.a = Literal(45, 1000) /\ call.b = Literal(25, 1000)
  /\ FLt(call.out.value.predicted_change_exact, call.out.value.predicted_change_approx)

(* C3 (as amended): a call ends either with a record or with                *)
(* ZeroDivisionError; calculate_ppp raises exactly when foreign_price = 0   *)
(* or the computed implied rate is zero (domestic_price = 0, or a quotient  *)
(* that underflows to zero), calculate_ife exactly when                     *)
(* foreign_interest = -1.                                                   *)
C3_FaultsExactly ==
  /\ call.status = "done" => (Returned \/ Raised)
  /\ Done("calculate_ppp") => (Raised <=> (IsZero(call.b) \/ IsZero(FDiv(call.a, call.b))))
  /\ Done("calculate_ife") => (Raised <=> call.b = MinusOne)

(* C3 as stated: calculate_ppp raises exactly when foreign_price = 0 or     *)
(* domestic_price = 0, calculate_ife exactly when foreign_interest = -1.    *)
C3_AsStated ==
  /\ call.status = "done" => (Returned \/ Raised)
  /\ Done("calculate_ppp") => (Raised <=> (IsZero(call.b) \/ IsZero(call.a)))
  /\ Done("calculate_ife") => (Raised <=> call.b = MinusOne)

C3_Witness ==
  /\ Done("calculate_ppp") /\ Raised
  /\ ~IsZero(call.b) /\ IsZero(FDiv(call.a, call.b))

(* C4 (as amended): for positive prices d and f whose quotient d / f is a   *)
(* finite non-zero float, calculate_ppp(d, f, d / f) returns                *)
(* misalignment_percent = 0.                                                *)
C4_ParityIsZero ==
  (/\ Done("calculate_ppp") /\ FGt(call.a, Zero) /\ FGt(call.b, Zero)
   /\ call.c = FDiv(call.a, call.b) /\ IsFinite(call.c) /\ ~IsZero(call.c)) =>
    (Returned /\ FEq(call.out.value.misalignment_percent, Zero))

(* C4 as stated: for all positive d and f, calculate_ppp(d, f, d / f)       *)
(* returns misalignment_percent = 0.                                        *)
C4_AsStated ==
  (/\ Done("calculate_ppp") /\ FGt(call.a, Zero) /\ FGt(call.b, Zero)
   /\ call.c = FDiv(call.a, call.b)) =>
    (Returned /\ FEq(call.out.value.misalignment_percent, Zero))

C4_Witness ==
  /\ Done("calculate_ppp") /\ Returned
  /\ call.a = Literal(1205, 10) /\ call.b = Literal(1152, 10)
  /\ call.c = FDiv(call.a, call.b)
  /\ call.c \notin RateValues

(* C5 (as amended): for a fixed foreign_interest and a < b,                 *)
(* calculate_ife(a, f).predicted_change_approx <= that of calculate_ife(b,  *)
(* f), and when foreign_interest > -1 also predicted_change_exact <= that   *)
(* of calculate_ife(b, f); when foreign_interest < -1 predicted_change_exact *)
(* is >= instead.                                                           *)
C5_Monotone ==
  (Done("calculate_ife") /\ Returned) =>
    \A x \in InterestValues :
      FLt(call.a, x) =>
        LET o == calculate_ife(x, call.b).value
        IN /\ FLe(call.out.value.predicted_change_approx, o.predicted_change_approx)
           /\ FGt(call.b, MinusOne) =>
                FLe(call.out.value.predicted_change_exact, o.predicted_change_exact)
           /\ FLt(call.b, MinusOne) =>
                FLe(o.predicted_change_exact, call.out.value.predicted_change_exact)

(* C5 as stated: for every foreign_interest with a defined result and       *)
(* a < b, both fields of calculate_ife(a, f) are strictly smaller than      *)
(* those of calculate_ife(b, f).                                            *)
C5_AsStated ==
  (Done("calculate_ife") /\ Returned) =>
    \A x \in InterestValues :
      FLt(call.a, x) =>
        LET o == calculate_ife(x, call.b).value
        IN /\ FLt(call.out.value.predicted_change_approx, o.predicted_change_approx)
           /\ FLt(call.out.value.predicted_change_exact, o.predicted_change_exact)

C5_Witness ==
  /\ Done("calculate_ife") /\ Returned
  /\ call.a = Literal(25, 1000) /\ call.b = Zero
  /\ FLt(call.out.value.predicted_change_exact,
         calculate_ife(Literal(45, 1000), call.b).value.predicted_change_exact)

(* C6: for every x # -1, calculate_ife(x, x) returns                        *)
(* predicted_change_exact = 0 and predicted_change_approx = 0.              *)
C6_EqualRates ==
  (Done("calculate_ife") /\ call.a = call.b /\ call.b # MinusOne) =>
    /\ Returned
    /\ FEq(call.out.value.predicted_change_exact, Zero)
    /\ FEq(call.out.value.predicted_change_approx, Zero)

C6_Witness ==
  /\ Done("calculate_ife") /\ Returned
  /\ call.a = call.b /\ call.a = Literal(45, 1000)

(* C10 (as amended): for foreign_interest > -1 a positive                   *)
(* predicted_change_exact comes with a positive predicted_change_approx and *)
(* a negative with a negative; for foreign_interest < -1 a positive         *)
(* predicted_change_exact comes with a negative predicted_change_approx and *)
(* a negative with a positive.                                              *)
C10_Signs ==
  (Done("calculate_ife") /\ Returned) =>
    LET ex == call.out.value.predicted_change_exact
        ap == call.out.value.predicted_change_approx
    IN /\ FGt(call.b, MinusOne) =>
            (FGt(ex, Zero) => FGt(ap, Zero)) /\ (FLt(ex, Zero) => FLt(ap, Zero))
       /\ FLt(call.b, MinusOne) =>
            (FGt(ex, Zero) => FLt(ap, Zero)) /\ (FLt(ex, Zero) => FGt(ap, Zero))

(* C10 as stated: for every foreign_interest # -1,                          *)
(* predicted_change_exact * (1 + foreign_interest) = predicted_change_approx. *)
C10_AsStated ==
  (Done("calculate_ife") /\ Returned) =>
    FEq(FMul(call.out.value.predicted_change_exact, FAdd(One, call.b)),
        call.out.value.predicted_change_approx)

C10_Witness ==
  /\ Done("calculate_ife") /\ Returned
  /\ FLt(call.b, MinusOne)
  /\ FLt(call.out.value.predicted_change_exact, Zero)
  /\ FGt(call.out.value.predicted_change_approx, Zero)

----------------------------------------------------------------------------
(* Concurrent callers (SpecConc): each caller runs its call statement by   *)
(* statement in a frame of its own; the arguments and the local names       *)
(* ppp_implied_rate, misalignment_pct, predicted_change and approx_change   *)
(* live in the frame, and the module has no global that a call writes.      *)

NumCallers == 2
Callers == 1..NumCallers

ConcPppArgs ==
  {<<d, f, One>> : <<d, f>> \in {Zero, One, FromInt(3)} \X {Zero, FromInt(3)}}
ConcIfeArgs ==
  {<<d, f>> : <<d, f>> \in {Literal(45, 1000), MinusOne} \X {Literal(25, 1000), MinusOne}}

IdleFrame ==
  [pc |-> "idle", fn |-> "none", a |-> NoFloat, b |-> NoFloat, c |-> NoFloat,
   ppp_implied_rate |-> NoFloat, misalignment_pct |-> NoFloat,
   predicted_change |-> NoFloat, approx_change |-> NoFloat, out |-> NoValue]

InitConc == call = NoCall /\ frames = [t \in Callers |-> IdleFrame] /\ drv = NoDriver

InvokePpp(t) ==
  /\ frames[t].pc = "idle"
  /\ \E args \in ConcPppArgs :
       frames' = [frames EXCEPT ![t] = [IdleFrame EXCEPT !.pc = "L27", !.fn = "calculate_ppp",
                                          !.a = args[1], !.b = args[2], !.c = args[3]]]
  /\ UNCHANGED <<call, drv>>

InvokeIfe(t) ==
  /\ frames[t].pc = "idle"
  /\ \E args \in ConcIfeArgs :
       frames' = [frames EXCEPT ![t] = [IdleFrame EXCEPT !.pc = "L54", !.fn = "calculate_ife",
                                          !.a = args[1], !.b = args[2]]]
  /\ UNCHANGED <<call, drv>>

(* Line 27 with ppp_implied_rate a module global: the assignment lands in   *)
(* every frame.                                                             *)
PppLine27_global(t) ==
  /\ frames[t].pc = "L27"
  /\ frames' =
       IF DivFaults(frames[t].b)
       THEN [frames EXCEPT ![t].pc = "raised", ![t].out = ZeroDivisionError]
       ELSE [u \in Callers |->
               IF u = t
               THEN [frames[u] EXCEPT !.pc = "L30",
                                      !.ppp_implied_rate = FDiv(frames[t].a, frames[t].b)]
               ELSE [frames[u] EXCEPT !.ppp_implied_rate = FDiv(frames[t].a, frames[t].b)]]
  /\ UNCHANGED <<call, drv>>

PppLine27(t) ==
  /\ frames[t].pc = "L27"
  /\ frames' =
       IF DivFaults(frames[t].b)
       THEN [frames EXCEPT ![t].pc = "raised", ![t].out = ZeroDivisionError]
       ELSE [frames EXCEPT ![t].pc = "L30",
                           ![t].ppp_implied_rate = FDiv(frames[t].a, frames[t].b)]
  /\ UNCHANGED <<call, drv>>

PppLine30(t) ==
  /\ frames[t].pc = "L30"
  /\ frames' =
       IF DivFaults(frames[t].ppp_implied_rate)
       THEN [frames EXCEPT ![t].pc = "raised", ![t].out = ZeroDivisionError]
       ELSE [frames EXCEPT ![t].pc = "L32",
                           ![t].misalignment_pct =
                              FMul(FDiv(FSub(frames[t].c, frames[t].ppp_implied_rate),
                                        frames[t].ppp_implied_rate), Hundred)]
  /\ UNCHANGED <<call, drv>>

PppLine32(t) ==
  /\ frames[t].pc = "L32"
  /\ frames' = [frames EXCEPT ![t].pc = "returned",
                              ![t].out = Return([ppp_implied_rate |-> frames[t].ppp_implied_rate,
                                                 misalignment_percent |-> frames[t].misalignment_pct])]
  /\ UNCHANGED <<call, drv>>

IfeLine54(t) ==
  /\ frames[t].pc = "L54"
  /\ frames' =
       IF DivFaults(FAdd(One, frames[t].b))
       THEN [frames EXCEPT ![t].pc = "raised", ![t].out = ZeroDivisionError]
       ELSE [frames EXCEPT ![t].pc = "L56",
                           ![t].predicted_change =
                              FMul(FSub(FDiv(FAdd(One, frames[t].a), FAdd(One, frames[t].b)),
                                        One), Hundred)]
  /\ UNCHANGED <<call, drv>>

IfeLine56(t) ==
  /\ frames[t].pc = "L56"
  /\ frames' = [frames EXCEPT ![t].pc = "L58",
                              ![t].approx_change =
                                 FMul(FSub(frames[t].a, frames[t].b), Hundred)]
  /\ UNCHANGED <<call, drv>>

IfeLine58(t) ==
  /\ frames[t].pc = "L58"
  /\ frames' = [frames EXCEPT ![t].pc = "returned",
                              ![t].out = Return([predicted_change_exact |-> frames[t].predicted_change,
                                                 predicted_change_approx |-> frames[t].approx_change,
                                                 interest_differential |->
                                                   FMul(FSub(frames[t].a, frames[t].b), Hundred)])]
  /\ UNCHANGED <<call, drv>>

(* The caller takes the result (or handles the exception); the frame is     *)
(* gone.                                                                    *)
Leave(t) ==
  /\ frames[t].pc \in {"returned", "raised"}
  /\ frames' = [frames EXCEPT ![t] = IdleFrame]
  /\ UNCHANGED <<call, drv>>

NextConc ==
  \E t \in Callers :
    \/ InvokePpp(t) \/ InvokeIfe(t)
    \/ PppLine27(t) \/ PppLine30(t) \/ PppLine32(t)
    \/ IfeLine54(t) \/ IfeLine56(t) \/ IfeLine58(t)
    \/ Leave(t)

SpecConc == InitConc /\ [][NextConc]_vars

Alone(fr) ==
  IF fr.fn = "calculate_ppp" THEN calculate_ppp(fr.a, fr.b, fr.c) ELSE calculate_ife(fr.a, fr.b)

(* C8: whatever the interleaving of the callers' statements, a call that    *)
(* has ended has ended exactly as the same call does when it runs alone on  *)
(* the same arguments; in particular a PPP call and an IFE call end the     *)
(* same whichever of the two runs first.                                    *)
C8_Isolated ==
  \A t \in Callers :
    frames[t].pc \in {"returned", "raised"} =>
      /\ frames[t].out.status = Alone(frames[t]).status
      /\ frames[t].out.status = "returned" => frames[t].out.value = Alone(frames[t]).value

(* Two calls overlapped: one caller ended a PPP call that another caller's  *)
(* PPP call on other prices started and finished within.                    *)
C8_Witness ==
  \E t, u \in Callers :
    /\ t # u
    /\ frames[t].pc = "returned" /\ frames[t].fn = "calculate_ppp"
    /\ frames[u].pc = "returned" /\ frames[u].fn = "calculate_ppp"
    /\ frames[t].ppp_implied_rate # frames[u].ppp_implied_rate

----------------------------------------------------------------------------
(* The driver main (SpecMain).  Its example data are literals of lines      *)
(* 69-75; the model draws them from small sets that hold those literals, so *)
(* that both branches of each if statement are exercised.                   *)

(* format(x, ".<places>f"): the decimal nearest to the float, ties to even, *)
(* as sign, digits (the value scaled by 10^places) and the places.          *)
FormatFixed(x, places) ==
  IF IsNaN(x) THEN [sign |-> "", special |-> "nan", digits |-> 0, places |-> places]
  ELSE IF IsInf(x)
    THEN [sign |-> IF x.m < 0 THEN "-" ELSE "", special |-> "inf", digits |-> 0,
          places |-> places]
  ELSE
    LET n == Abs(x.m) * Pow5(places)
        k == -x.e - places
        unit == Pow2(k)
        q == n \div unit
        rem == n % unit
        digits ==
          IF k <= 0 THEN n * Pow2(-k)
          ELSE IF k > BitLen(n) THEN 0
          ELSE IF k = BitLen(n) THEN (IF n = 1 THEN 0 ELSE 1)
          ELSE IF 2 * rem > unit \/ (2 * rem = unit /\ q % 2 = 1) THEN q + 1
          ELSE q
    IN [sign |-> IF x.m < 0 THEN "-" ELSE "", special |-> "", digits |-> digits,
        places |-> places]

UsCpiValues == {Literal(1205, 10), Literal(1152, 10)}
EuCpiValues == {Literal(1152, 10), Literal(1205, 10)}
CurrentValues == {Literal(108, 100), Literal(10, 10), Literal(95, 100)}
UsInterestValues == {Literal(45, 1000), Literal(25, 1000)}
EuInterestValues == {Literal(25, 1000), Literal(45, 1000)}

InitMain ==
  /\ call = NoCall /\ frames = NoFrames
  /\ \E us \in UsCpiValues, eu \in EuCpiValues, cur \in CurrentValues,
        ui \in UsInterestValues, ei \in EuInterestValues :
       drv = [pc |-> "L78", us_cpi |-> us, eu_cpi |-> eu, current_eur_usd |-> cur,
              us_interest |-> ui, eu_interest |-> ei,
              ppp_result |-> NoValue, ife_result |-> NoValue,
              combined_signal |-> NoFloat, out |-> <<>>]

(* line 78; an exception leaves main and ends the program with a traceback  *)
MainCallPpp ==
  /\ drv.pc = "L78"
  /\ LET r == calculate_ppp(drv.us_cpi, drv.eu_cpi, drv.current_eur_usd)
     IN drv' = IF r.status = "returned"
               THEN [drv EXCEPT !.pc = "L81", !.ppp_result = r.value]
               ELSE [drv EXCEPT !.pc = "traceback"]
  /\ UNCHANGED <<call, frames>>

(* line 81 *)
MainCallIfe ==
  /\ drv.pc = "L81"
  /\ LET r == calculate_ife(drv.us_interest, drv.eu_interest)
     IN drv' = IF r.status = "returned"
               THEN [drv EXCEPT !.pc = "L83", !.ife_result = r.value]
               ELSE [drv EXCEPT !.pc = "traceback"]
  /\ UNCHANGED <<call, frames>>

(* lines 83-89 *)
MainPrintPpp ==
  /\ drv.pc = "L83"
  /\ drv' = [drv EXCEPT
       !.pc = "L91",
       !.out = drv.out \o
         << <<"=== Combined Currency Valuation Analysis ===">>,
            <<"--- PPP (Long-Term) Perspective ---">>,
            <<"Domestic (US) price level index", drv.us_cpi>>,
            <<"Foreign (EU) price level index", drv.eu_cpi>>,
            <<"Current exchange rate (USD/EUR)", drv.current_eur_usd>>,
            <<"PPP-implied exchange rate (USD/EUR)",
              FormatFixed(drv.ppp_result.ppp_implied_rate, 4)>>,
            <<"PPP misalignment", FormatFixed(drv.ppp_result.misalignment_percent, 2)>> >>]
  /\ UNCHANGED <<call, frames>>

(* lines 91-94 *)
MainPppVerdict ==
  /\ drv.pc = "L91"
  /\ drv' = [drv EXCEPT
       !.pc = "L96",
       !.out = Append(drv.out,
                 IF FGt(drv.ppp_result.misalignment_percent, Zero)
                 THEN <<"USD is OVERVALUED relative to PPP.">>
                 ELSE <<"USD is UNDERVALUED relative to PPP.">>)]
  /\ UNCHANGED <<call, frames>>

(* lines 96-101 *)
MainPrintIfe ==
  /\ drv.pc = "L96"
  /\ drv' = [drv EXCEPT
       !.pc = "L103",
       !.out = drv.out \o
         << <<"--- IFE (Short-to-Medium-Term) Perspective ---">>,
            <<"Domestic (US) interest rate",
              FormatFixed(FMul(drv.us_interest, FromInt(100)), 2)>>,
            <<"Foreign (EU) interest rate",
              FormatFixed(FMul(drv.eu_interest, FromInt(100)), 2)>>,
            <<"Interest rate differential (US-EU)",
              FormatFixed(drv.ife_result.interest_differential, 2)>>,
            <<"Predicted exchange rate change (exact)",
              FormatFixed(drv.ife_result.predicted_change_exact, 2)>>,
            <<"Predicted exchange rate change (approximate)",
              FormatFixed(drv.ife_result.predicted_change_approx, 2)>> >>]
  /\ UNCHANGED <<call, frames>>

(* lines 103-106 *)
MainIfeVerdict ==
  /\ drv.pc = "L103"
  /\ drv' = [drv EXCEPT
       !.pc = "L108",
       !.out = Append(drv.out,
                 IF FGt(drv.ife_result.predicted_change_exact, Zero)
                 THEN <<"USD expected to DEPRECIATE (exchange rate up) according to IFE.">>
                 ELSE <<"USD expected to APPRECIATE (exchange rate down) according to IFE.">>)]
  /\ UNCHANGED <<call, frames>>

(* lines 108-120 *)
MainCombined ==
  /\ drv.pc = "L108"
  /\ LET weight_ppp == Literal(5, 10)
         weight_ife == Literal(5, 10)
         combined_signal ==
           FAdd(FMul(weight_ppp, drv.ppp_result.misalignment_percent),
                FMul(weight_ife, drv.ife_result.predicted_change_exact))
     IN drv' = [drv EXCEPT
          !.pc = "L121",
          !.combined_signal = combined_signal,
          !.out = drv.out \o
            << <<"--- Combined Signal ---">>,
               <<"Weighted combined signal (50% PPP, 50% IFE)",
                 FormatFixed(combined_signal, 2)>> >>]
  /\ UNCHANGED <<call, frames>>

(* lines 121-124 *)
MainCombinedVerdict ==
  /\ drv.pc = "L121"
  /\ drv' = [drv EXCEPT
       !.pc = "exit",
       !.out = Append(drv.out,
                 IF FGt(drv.combined_signal, Zero)
                 THEN <<"Combined indicator suggests USD OVERVALUED / likely to depreciate.">>
                 ELSE <<"Combined indicator suggests USD UNDERVALUED / likely to appreciate.">>)]
  /\ UNCHANGED <<call, frames>>

NextMain ==
  \/ MainCallPpp \/ MainCallIfe \/ MainPrintPpp \/ MainPppVerdict
  \/ MainPrintIfe \/ MainIfeVerdict \/ MainCombined \/ MainCombinedVerdict

SpecMain == InitMain /\ [][NextMain]_vars

Printed(line) == \E i \in 1..Len(drv.out) : drv.out[i] = line
PrintedValue(label, v) == \E i \in 1..Len(drv.out) : drv.out[i] = <<label, v>>
Decimal(digits, places) == [sign |-> "", special |-> "", digits |-> digits, places |-> places]
ShippedData ==
  /\ drv.us_cpi = Literal(1205, 10) /\ drv.eu_cpi = Literal(1152, 10)
  /\ drv.current_eur_usd = Literal(108, 100)

(* C7 (as amended): with the data of lines 69-71, calculate_ppp(120.5,      *)
(* 115.2, 1.08), the driver prints the implied rate as 1.0460 and the       *)
(* misalignment as 3.25.                                                    *)
C7_Scenario ==
  (ShippedData /\ drv.pc \in {"L91", "L96", "L103", "L108", "L121", "exit"}) =>
    /\ PrintedValue("PPP-implied exchange rate (USD/EUR)", Decimal(10460, 4))
    /\ PrintedValue("PPP misalignment", Decimal(325, 2))

(* C7 as stated: the implied rate is 1.0460 and the misalignment 3.30, to   *)
(* four and two decimal places.                                             *)
C7_AsStated ==
  (ShippedData /\ drv.pc \in {"L91", "L96", "L103", "L108", "L121", "exit"}) =>
    /\ PrintedValue("PPP-implied exchange rate (USD/EUR)", Decimal(10460, 4))
    /\ PrintedValue("PPP misalignment", Decimal(330, 2))

C7_Witness == ShippedData /\ drv.pc = "exit" /\ Len(drv.out) = 18

====
